---- MODULE Spec2Model ----
\* Membership backend (FastAPI handlers of main.py over a MongoDB document
\* store).  Every handler is split at its store accesses: one action per
\* store round trip, so that requests served by different threads of the
\* server's pool interleave exactly where the code lets them.
EXTENDS Integers, Sequences, FiniteSets, TLC

\* ------------------------------------------------------------------ bounds
\* Requests the server accepts in one behaviour, and the largest limit a
\* list_messages request carries.
MaxRequests == 2
MaxLimit == 2

\* ---------------------------------------------------------------- inputs
\* Python's None where a string is expected, kept apart from every string a
\* request can carry, and None where a document is expected.
None == "<None>"
NoneDoc == [none |-> TRUE]

\* The threads of the server's pool, by number.
Workers == {1, 2}
Emails == {"a@x.com", "b@x.com"}
AdminHeaders == Emails \cup {None, ""}
Names == {"Ann"}
RoleArgs == {None, "", "admin"}
StatusArgs == {None, "", "canceled", "past_due"}
ProviderArgs == {"stripe", "paypal", "INVOICE", "wire"}
Channels == {"general", "random"}
Limits == 1..MaxLimit

\* HTTP status codes the handlers produce.
OK == 200
BadRequest == 400
Forbidden == 403
NotFound == 404
ServerError == 500

VARIABLES
    dbPresent,  \* whether database.db is a handle (TRUE) or None (FALSE)
    db,         \* collection name -> sequence of documents, in insertion order
    clock,      \* source of store-assigned identifiers and creation times
    pc,         \* per worker thread: the store access its request reaches next
    req,        \* per worker thread: the request it is serving
    served,     \* requests accepted so far
    resp        \* the response most recently sent

vars == <<dbPresent, db, clock, pc, req, served, resp>>

Collections == {"member", "invoicerequest", "message", "video", "resource"}

\* ------------------------------------------------------- python helpers
\* Truth value of an Optional[str]: None and "" are falsy.
Truthy(s) == s # None /\ s # ""

\* A comparison that keeps the case of the provider.
LowerSame(s) == s

\* str.lower() over the provider strings the requests carry.
Lower(s) ==
    CASE s = "INVOICE" -> "invoice"
      [] s = "Stripe" -> "stripe"
      [] s = "PayPal" -> "paypal"
      [] OTHER -> s

\* str(ObjectId): the identifier rendered as a string.
Str(id) == ToString(id)

\* dict.get(key, default)
Get(doc, key, default) == IF key \in DOMAIN doc THEN doc[key] ELSE default

\* ------------------------------------------------------- store (pymongo)
\* Indexes of the documents of a collection matching an equality filter on
\* one field.
Matching(coll, field, value) ==
    {i \in 1..Len(db[coll]) : Get(db[coll][i], field, None) = value}

\* Collection.find_one({field: value}): the first match, or None.
find_one(coll, field, value) ==
    LET hits == Matching(coll, field, value)
    IN IF hits = {} THEN NoneDoc
       ELSE db[coll][CHOOSE i \in hits : \A j \in hits : i <= j]

\* Collection.update_one({field: value}, {"$set": updates}): the first match
\* gets the fields of updates, every other document is left alone.
update_one(coll, field, value, updates) ==
    LET hits == Matching(coll, field, value)
    IN IF hits = {} THEN db
       ELSE LET i == CHOOSE k \in hits : \A j \in hits : k <= j
                old == db[coll][i]
                new == [k \in DOMAIN old \cup DOMAIN updates |->
                          IF k \in DOMAIN updates THEN updates[k] ELSE old[k]]
            IN [db EXCEPT ![coll][i] = new]

\* database.create_document: stamps the document and appends it.
create_document(coll, doc) ==
    [db EXCEPT ![coll] =
        Append(@, doc @@ [_id |-> clock, created_at |-> clock])]

RECURSIVE SelectIdx(_, _)
SelectIdx(seq, idx) ==
    IF seq = <<>> THEN <<>>
    ELSE IF 1 \in idx
         THEN <<Head(seq)>> \o SelectIdx(Tail(seq), {i - 1 : i \in idx \ {1}})
         ELSE SelectIdx(Tail(seq), {i - 1 : i \in idx})

Take(seq, n) == IF Len(seq) <= n THEN seq ELSE SubSeq(seq, 1, n)

\* database.get_documents(coll, filter, limit): the matching documents in the
\* store's native (insertion) order, cut to the first limit of them; a limit
\* of 0 stands for the absent limit.
get_documents(coll, field, value, limit) ==
    LET all == IF field = None THEN db[coll]
               ELSE SelectIdx(db[coll], Matching(coll, field, value))
    IN IF limit = 0 THEN all ELSE Take(all, limit)

\* The sort key of list_messages: x.get("created_at", 0).
SortKey(x) == Get(x, "created_at", 0)

\* list.sort(key=SortKey, reverse=True): stable, equal keys keep their order.
RECURSIVE InsertDesc(_, _)
InsertDesc(x, sorted) ==
    IF sorted = <<>> THEN <<x>>
    ELSE IF SortKey(Head(sorted)) >= SortKey(x)
         THEN <<Head(sorted)>> \o InsertDesc(x, Tail(sorted))
         ELSE <<x>> \o sorted

RECURSIVE SortDescFrom(_, _)
SortDescFrom(seq, acc) ==
    IF seq = <<>> THEN acc
    ELSE SortDescFrom(Tail(seq), InsertDesc(Head(seq), acc))

SortDesc(seq) == SortDescFrom(seq, <<>>)

\* m["_id"] = str(m["_id"]) over a list of documents.
Serialize(docs) == [i \in 1..Len(docs) |-> [docs[i] EXCEPT !._id = Str(@)]]

\* ---------------------------------------------------------------- helpers
member_by_email(email) ==
    IF dbPresent THEN find_one("member", "email", email) ELSE NoneDoc

\* An ensure_member that lets an unknown email through.
MemberMissingNever(email) == FALSE

\* ensure_member raises 404 exactly when this is TRUE.
MemberMissing(email) == member_by_email(email) = NoneDoc

\* An is_admin that takes any Member for an admin.
is_admin_any_member(email) == member_by_email(email) # NoneDoc

is_admin(email) ==
    LET m == member_by_email(email)
    IN m # NoneDoc /\ Get(m, "role", None) = "admin"

\* A gate that only wants the header to be there.
AdminGateAnyCaller(x_admin_email) == Truthy(x_admin_email)

\* The admin gate of the four admin-only handlers: TRUE when the caller passes.
AdminGate(x_admin_email) == Truthy(x_admin_email) /\ is_admin(x_admin_email)

\* ------------------------------------------------------------ bookkeeping
\* The pool hands a new request to its first free thread.
Idle(w) ==
    /\ pc[w] = "idle"
    /\ \A v \in Workers : v < w => pc[v] # "idle"
    /\ served < MaxRequests

Respond(op, code, body) ==
    resp' = [op |-> op, code |-> code, body |-> body]

\* A request answered within the step that accepted it.
Answer(op, code, body) ==
    /\ Respond(op, code, body)
    /\ served' = served + 1
    /\ UNCHANGED <<pc, req>>

\* A request accepted and taken to its next store access.
Accept(w, label, r) ==
    /\ pc' = [pc EXCEPT ![w] = label]
    /\ req' = [req EXCEPT ![w] = r]
    /\ served' = served + 1
    /\ UNCHANGED resp

\* The request ends: the worker thread goes back to the pool.
Finish(w) ==
    /\ pc' = [pc EXCEPT ![w] = "idle"]
    /\ req' = [req EXCEPT ![w] = NoneDoc]
    /\ UNCHANGED served

\* The request goes on to its next store access.
Goto(w, label, r) ==
    /\ pc' = [pc EXCEPT ![w] = label]
    /\ req' = [req EXCEPT ![w] = r]
    /\ UNCHANGED <<served, resp>>

\* ------------------------------------------------------------- requests
RegisterRequest == [name : Names, email : Emails]
SubscribeRequest ==
    [email : Emails, provider : ProviderArgs, company : {None}, notes : {None}]
MessageCreate == [member_email : Emails, content : {"hello"}, channel : Channels]
VideoCreate ==
    [title : {"Intro"}, vimeo_id : {"76979871"}, description : {None},
     category : {None}]
ResourceCreate ==
    [title : {"Opener"}, type : {"prompt"}, description : {None}, url : {None},
     tags : {<<>>}]
UpdateArgs ==
    [email : Emails, role : RoleArgs, subscription_status : StatusArgs,
     x_admin_email : AdminHeaders]

\* ------------------------------------------------- liveness, diagnostics
read_root(w) ==
    /\ Idle(w)
    /\ Answer("read_root", OK,
               [message |-> "AI Sales Training Backend Running"])
    /\ UNCHANGED <<dbPresent, db, clock>>

test_database(w) ==
    /\ Idle(w)
    /\ Answer("test_database", OK,
               IF dbPresent
               THEN [backend |-> "Running", database |-> "Connected & Working",
                     connection_status |-> "Connected",
                     collections |-> {c \in Collections : db[c] # <<>>}]
               ELSE [backend |-> "Running", database |-> "Not Available",
                     connection_status |-> "Not Connected",
                     collections |-> {}])
    /\ UNCHANGED <<dbPresent, db, clock>>

admin_check(w, email) ==
    /\ Idle(w)
    /\ Answer("admin_check", OK,
               [email |-> email, is_admin |-> is_admin(email)])
    /\ UNCHANGED <<dbPresent, db, clock>>

\* --------------------------------------------------------------- members
\* The document register_member builds.
RegisterDoc(payload) ==
    [name |-> payload.name, email |-> payload.email, role |-> "member",
     subscription_status |-> "inactive", provider |-> None, plan |-> "$49/mo"]

\* register_member up to its lookup: the duplicate test.
register_member(w, payload) ==
    /\ Idle(w)
    /\ IF member_by_email(payload.email) # NoneDoc
       THEN Answer("register_member", BadRequest,
                       "Email already registered")
       ELSE Accept(w, "register_insert", payload)
    /\ UNCHANGED <<dbPresent, db, clock>>

\* register_member from create_document on.
register_insert(w) ==
    /\ pc[w] = "register_insert"
    /\ IF dbPresent
       THEN /\ db' = create_document("member", RegisterDoc(req[w]))
            /\ clock' = clock + 1
            /\ Respond("register_member", OK,
                       [id |-> clock, message |-> "Registered"])
       ELSE /\ Respond("register_member", ServerError,
                       "Database not available")
            /\ UNCHANGED <<db, clock>>
    /\ Finish(w)
    /\ UNCHANGED dbPresent

\* list_members up to the admin gate.
list_members(w, x_admin_email) ==
    /\ Idle(w)
    /\ IF ~AdminGate(x_admin_email)
       THEN Answer("list_members", Forbidden, "Admin only")
       ELSE Accept(w, "list_members_get", [x_admin_email |-> x_admin_email])
    /\ UNCHANGED <<dbPresent, db, clock>>

\* list_members from get_documents on.
list_members_get(w) ==
    /\ pc[w] = "list_members_get"
    /\ Respond("list_members", OK,
               Serialize(get_documents("member", None, None, 0)))
    /\ Finish(w)
    /\ UNCHANGED <<dbPresent, db, clock>>

\* Updates built with "is not None" tests: an empty string is written.
UpdatesNotNone(role, subscription_status) ==
    [k \in (IF role # None THEN {"role"} ELSE {})
             \cup (IF subscription_status # None
                   THEN {"subscription_status"} ELSE {}) |->
        IF k = "role" THEN role ELSE subscription_status]

\* The $set document update_member builds from its optional arguments.
Updates(role, subscription_status) ==
    [k \in (IF Truthy(role) THEN {"role"} ELSE {})
             \cup (IF Truthy(subscription_status)
                   THEN {"subscription_status"} ELSE {}) |->
        IF k = "role" THEN role ELSE subscription_status]

\* update_member up to the admin gate.
update_member(w, args) ==
    /\ Idle(w)
    /\ IF ~AdminGate(args.x_admin_email)
       THEN Answer("update_member", Forbidden, "Admin only")
       ELSE Accept(w, "update_ensure", args)
    /\ UNCHANGED <<dbPresent, db, clock>>

\* update_member from ensure_member to the test of the updates.
update_ensure(w) ==
    /\ pc[w] = "update_ensure"
    /\ IF MemberMissing(req[w].email)
       THEN /\ Respond("update_member", NotFound, "Member not found")
            /\ Finish(w)
       ELSE IF DOMAIN Updates(req[w].role, req[w].subscription_status) = {}
       THEN /\ Respond("update_member", BadRequest,
                       "No updates provided")
            /\ Finish(w)
       ELSE Goto(w, "update_write", req[w])
    /\ UNCHANGED <<dbPresent, db, clock>>

\* update_member from update_one on.
update_write(w) ==
    /\ pc[w] = "update_write"
    /\ db' = update_one("member", "email", req[w].email,
                        Updates(req[w].role, req[w].subscription_status))
    /\ Respond("update_member", OK, [message |-> "Updated"])
    /\ Finish(w)
    /\ UNCHANGED <<dbPresent, clock>>

\* --------------------------------------------------------- subscriptions
Providers == {"stripe", "paypal", "invoice"}

\* checkout_url and status as subscribe sets them for a recognised provider.
CheckoutUrl(provider) ==
    CASE provider = "stripe" -> "https://buy.stripe.com/test_12345"
      [] provider = "paypal" ->
             "https://www.paypal.com/checkoutnow?token=TEST123"
      [] OTHER -> None

SubscribeStatus(provider) ==
    IF provider \in {"stripe", "paypal"} THEN "active" ELSE "pending"

\* The document the invoice branch of subscribe builds.
InvoiceDoc(payload) ==
    [member_email |-> payload.email, company |-> payload.company,
     notes |-> payload.notes, status |-> "requested"]

\* A dispatch that files an invoice request for every provider.
AlwaysInvoice(provider) == "subscribe_invoice"

\* Where subscribe goes once the member is found and the provider is valid.
SubscribeBranch(provider) ==
    IF provider \in {"stripe", "paypal"} THEN "subscribe_update"
    ELSE "subscribe_invoice"

\* subscribe up to the provider dispatch.
subscribe(w, payload) ==
    /\ Idle(w)
    /\ IF MemberMissing(payload.email)
       THEN Answer("subscribe", NotFound, "Member not found")
       ELSE IF Lower(payload.provider) \notin Providers
       THEN Answer("subscribe", BadRequest, "Invalid provider")
       ELSE Accept(w, SubscribeBranch(Lower(payload.provider)), payload)
    /\ UNCHANGED <<dbPresent, db, clock>>

\* subscribe, invoice branch: create_document("invoicerequest", ...).
subscribe_invoice(w) ==
    /\ pc[w] = "subscribe_invoice"
    /\ IF dbPresent
       THEN /\ db' = create_document("invoicerequest", InvoiceDoc(req[w]))
            /\ clock' = clock + 1
            /\ Goto(w, "subscribe_update", req[w])
       ELSE /\ Respond("subscribe", ServerError,
                       "Database not available")
            /\ Finish(w)
            /\ UNCHANGED <<db, clock>>
    /\ UNCHANGED dbPresent

\* subscribe from update_one on.
subscribe_update(w) ==
    /\ pc[w] = "subscribe_update"
    /\ LET provider == Lower(req[w].provider)
       IN /\ db' = update_one("member", "email", req[w].email,
                     [subscription_status |-> SubscribeStatus(provider),
                      provider |-> provider])
          /\ Respond("subscribe", OK,
                     [message |-> "Subscription initiated",
                      status |-> SubscribeStatus(provider),
                      checkout_url |-> CheckoutUrl(provider)])
    /\ Finish(w)
    /\ UNCHANGED <<dbPresent, clock>>

\* ---------------------------------------------------- videos, resources
\* get_videos and get_resources: one get_documents call.
get_catalog(w, op, coll) ==
    /\ Idle(w)
    /\ IF dbPresent
       THEN Answer(op, OK,
                    Serialize(get_documents(coll, None, None, 0)))
       ELSE Answer(op, ServerError, "Database not available")
    /\ UNCHANGED <<dbPresent, db, clock>>

get_videos(w) == get_catalog(w, "get_videos", "video")

get_resources(w) == get_catalog(w, "get_resources", "resource")

\* add_video and add_resource up to the admin gate.
add_catalog(w, op, coll, label, payload, x_admin_email) ==
    /\ Idle(w)
    /\ IF ~AdminGate(x_admin_email)
       THEN Answer(op, Forbidden,
                       "Admin only")
       ELSE Accept(w, label, payload)
    /\ UNCHANGED <<dbPresent, db, clock>>

\* add_video and add_resource from create_document on.
catalog_insert(w, op, coll, label, message) ==
    /\ pc[w] = label
    /\ IF dbPresent
       THEN /\ db' = create_document(coll, req[w])
            /\ clock' = clock + 1
            /\ Respond(op, OK, [id |-> clock, message |-> message])
       ELSE /\ Respond(op, ServerError, "Database not available")
            /\ UNCHANGED <<db, clock>>
    /\ Finish(w)
    /\ UNCHANGED dbPresent

add_video(w, payload, x_admin_email) ==
    add_catalog(w, "add_video", "video", "add_video_insert", payload,
                x_admin_email)

add_video_insert(w) ==
    catalog_insert(w, "add_video", "video", "add_video_insert", "Video added")

add_resource(w, payload, x_admin_email) ==
    add_catalog(w, "add_resource", "resource", "add_resource_insert", payload,
                x_admin_email)

add_resource_insert(w) ==
    catalog_insert(w, "add_resource", "resource", "add_resource_insert",
                   "Resource added")

\* -------------------------------------------------------------- messages
\* What list_messages returns for a channel and a limit.
ListMessages(channel, limit) ==
    SortDesc(Serialize(get_documents("message", "channel", channel, limit)))

list_messages(w, channel, limit) ==
    /\ Idle(w)
    /\ IF dbPresent
       THEN Answer("list_messages", OK, ListMessages(channel, limit))
       ELSE Answer("list_messages", ServerError, "Database not available")
    /\ UNCHANGED <<dbPresent, db, clock>>

\* A gate that only turns away members who never subscribed.
MayPostNotInactive(m) == Get(m, "subscription_status", None) # "inactive"

\* The subscription gate of post_message.
MayPost(m) ==
    Get(m, "subscription_status", None) \in {"active", "past_due", "pending"}

\* post_message up to the subscription gate.
post_message(w, payload) ==
    /\ Idle(w)
    /\ IF MemberMissing(payload.member_email)
       THEN Answer("post_message", NotFound, "Member not found")
       ELSE IF ~MayPost(member_by_email(payload.member_email))
       THEN Answer("post_message", Forbidden,
                       "Subscription required")
       ELSE Accept(w, "post_insert", payload)
    /\ UNCHANGED <<dbPresent, db, clock>>

\* post_message from create_document on.
post_insert(w) ==
    /\ pc[w] = "post_insert"
    /\ IF dbPresent
       THEN /\ db' = create_document("message", req[w])
            /\ clock' = clock + 1
            /\ Respond("post_message", OK,
                       [id |-> clock, message |-> "Posted"])
       ELSE /\ Respond("post_message", ServerError,
                       "Database not available")
            /\ UNCHANGED <<db, clock>>
    /\ Finish(w)
    /\ UNCHANGED dbPresent

\* ------------------------------------------------------------ the system
EmptyStore == [c \in Collections |-> <<>>]

\* A store already in use: an administrator whose document was written
\* before documents carried a creation time, a member registered since, and
\* an early message of the administrator.
SeededStore ==
    [EmptyStore EXCEPT
       !["member"] = <<[_id |-> 1, name |-> "Root", email |-> "a@x.com",
                        role |-> "admin", subscription_status |-> "active",
                        provider |-> None, plan |-> "$49/mo"],
                       [_id |-> 3, name |-> "Ann", email |-> "b@x.com",
                        role |-> "member", subscription_status |-> "inactive",
                        provider |-> None, plan |-> "$49/mo",
                        created_at |-> 3]>>,
       !["message"] = <<[_id |-> 2, member_email |-> "a@x.com",
                         content |-> "welcome", channel |-> "general"]>>]

Init ==
    /\ dbPresent \in BOOLEAN
    /\ db \in (IF dbPresent THEN {EmptyStore, SeededStore} ELSE {EmptyStore})
    /\ clock = 4
    /\ pc = [w \in Workers |-> "idle"]
    /\ req = [w \in Workers |-> NoneDoc]
    /\ served = 0
    /\ resp = [op |-> "none", code |-> OK, body |-> None]

Next ==
    \E w \in Workers :
        \/ read_root(w)
        \/ test_database(w)
        \/ \E email \in Emails : admin_check(w, email)
        \/ \E payload \in RegisterRequest : register_member(w, payload)
        \/ register_insert(w)
        \/ \E h \in AdminHeaders : list_members(w, h)
        \/ list_members_get(w)
        \/ \E args \in UpdateArgs : update_member(w, args)
        \/ update_ensure(w)
        \/ update_write(w)
        \/ \E payload \in SubscribeRequest : subscribe(w, payload)
        \/ subscribe_invoice(w)
        \/ subscribe_update(w)
        \/ get_videos(w)
        \/ \E payload \in VideoCreate, h \in AdminHeaders :
               add_video(w, payload, h)
        \/ add_video_insert(w)
        \/ get_resources(w)
        \/ \E payload \in ResourceCreate, h \in AdminHeaders :
               add_resource(w, payload, h)
        \/ add_resource_insert(w)
        \/ \E channel \in Channels, limit \in Limits :
               list_messages(w, channel, limit)
        \/ \E payload \in MessageCreate : post_message(w, payload)
        \/ post_insert(w)

Spec == Init /\ [][Next]_vars

\* ================================================================ claims
Members == db["member"]
Invoices == db["invoicerequest"]
Messages == db["message"]

\* The positions of the Members with an email, and the Member a lookup by
\* that email resolves to (the first of them).
Named(email) == {i \in 1..Len(Members) : Members[i].email = email}
FirstNamed(email) == CHOOSE i \in Named(email) : \A j \in Named(email) : i <= j
Resolved(email) == Members[FirstNamed(email)]

\* The step takes a new request in on a worker thread.
Accepts(w) == Idle(w) /\ served' = served + 1

\* The step that takes the request in either answers it as the operation op
\* or carries it to the store access label: every step of the operation's
\* entry action is one of the two, which lets a formula skip the requests of
\* other operations.
Handles(w, op, label) == (pc' = pc /\ resp'.op = op) \/ pc'[w] = label

\* A worker's request takes the step that leaves the given store access.
Leaves(w, label) == pc[w] = label /\ pc'[w] # label

\* The step goes on to the next store access of the request, writing nothing.
Proceeds(w, label, r) == pc'[w] = label /\ req'[w] = r /\ db' = db

\* The step answers the request of a worker and ends it.
Ends(w, op, code) == resp'.op = op /\ resp'.code = code /\ pc'[w] = "idle"

\* The response of the step is an error that ends the request and writes
\* nothing.
Refused(op, code) ==
    /\ resp'.op = op
    /\ resp'.code = code
    /\ db' = db
    /\ pc' = pc

\* C1: no two Member documents have the same email, whatever the
\* interleaving of the lookup and the insert of concurrent register requests.
C1_UniqueEmail ==
    \A i, j \in 1..Len(Members) :
        i # j => Members[i].email # Members[j].email

\* C2: an admin-gated operation whose X-Admin-Email header is missing, empty,
\* names no Member or resolves to a Member whose role is not "admin" returns
\* 403 and leaves every collection unchanged.
NotAnAdmin(h) ==
    \/ h = None
    \/ h = ""
    \/ Named(h) = {}
    \/ Resolved(h).role # "admin"

C2_AdminGate ==
    [][\A w \in Workers :
         Accepts(w) => \A h \in AdminHeaders :
           NotAnAdmin(h) =>
             /\ list_members(w, h) => Refused("list_members", Forbidden)
             /\ (/\ Handles(w, "update_member", "update_ensure")
                 /\ \E e \in Emails, r \in RoleArgs, s \in StatusArgs :
                      update_member(w, [email |-> e, role |-> r,
                                        subscription_status |-> s,
                                        x_admin_email |-> h]))
                    => Refused("update_member", Forbidden)
             /\ (\E payload \in VideoCreate : add_video(w, payload, h))
                    => Refused("add_video", Forbidden)
             /\ (\E payload \in ResourceCreate : add_resource(w, payload, h))
                    => Refused("add_resource", Forbidden)]_vars

\* A non-admin Member was refused an admin-gated write.
C2_Witness ==
    /\ resp.op \in {"update_member", "add_video", "add_resource"}
    /\ resp.code = Forbidden
    /\ \E i \in 1..Len(Members) : Members[i].role # "admin"

\* C3: subscribe for an email with no Member fails with 404 and writes
\* nothing, whatever the provider.
C3_SubscribeUnknown ==
    [][\A w \in Workers, payload \in SubscribeRequest :
         (Named(payload.email) = {} /\ subscribe(w, payload))
             => Refused("subscribe", NotFound)]_vars

\* An invoice subscription for an unknown email was refused while the store
\* held another Member.
C3_Witness ==
    /\ resp.op = "subscribe"
    /\ resp.code = NotFound
    /\ Members # <<>>
    /\ \E e \in Emails : Named(e) = {}
    /\ Invoices = <<>>

\* C4: subscribe of an existing member with a provider that is "invoice" up
\* to case inserts exactly one InvoiceRequest (that member's email, status
\* "requested"), then sets the Member to pending / "invoice" and returns a
\* null checkout_url.
IsInvoice(provider) == provider \in {"invoice", "Invoice", "INVOICE"}

C4_Invoice ==
    [][\A w \in Workers :
         /\ Accepts(w) => \A payload \in SubscribeRequest :
              (/\ IsInvoice(payload.provider)
               /\ Named(payload.email) # {}
               /\ subscribe(w, payload))
                  => Proceeds(w, "subscribe_invoice", payload)
         /\ Leaves(w, "subscribe_invoice") =>
              /\ Len(Invoices') = Len(Invoices) + 1
              /\ SubSeq(Invoices', 1, Len(Invoices)) = Invoices
              /\ Invoices'[Len(Invoices')].member_email = req[w].email
              /\ Invoices'[Len(Invoices')].status = "requested"
              /\ \A c \in Collections \ {"invoicerequest"} : db'[c] = db[c]
              /\ pc'[w] = "subscribe_update" /\ req'[w] = req[w]
         /\ (Leaves(w, "subscribe_update") /\ IsInvoice(req[w].provider)) =>
              /\ Invoices' = Invoices
              /\ Members'[FirstNamed(req[w].email)].subscription_status
                     = "pending"
              /\ Members'[FirstNamed(req[w].email)].provider = "invoice"
              /\ Ends(w, "subscribe", OK)
              /\ resp'.body.status = "pending"
              /\ resp'.body.checkout_url = None]_vars

\* An upper-case INVOICE subscription went through.
C4_Witness ==
    /\ resp.op = "subscribe"
    /\ resp.code = OK
    /\ resp.body.checkout_url = None
    /\ \E e \in Emails :
         /\ Named(e) # {}
         /\ Resolved(e).subscription_status = "pending"
         /\ Resolved(e).provider = "invoice"
         /\ \E i \in 1..Len(Invoices) :
              Invoices[i].member_email = e /\ Invoices[i].status = "requested"

\* C5: subscribe of an existing member with provider "stripe" or "paypal"
\* inserts no InvoiceRequest, sets the Member to active with that provider
\* and returns a checkout URL; an admin listing returns every Member as
\* stored, so it shows that status and provider.
C5_Checkout ==
    [][\A w \in Workers :
         /\ Accepts(w) => \A payload \in SubscribeRequest :
              (/\ payload.provider \in {"stripe", "paypal"}
               /\ Named(payload.email) # {}
               /\ subscribe(w, payload))
                  => Proceeds(w, "subscribe_update", payload)
         /\ (/\ Leaves(w, "subscribe_update")
             /\ req[w].provider \in {"stripe", "paypal"}) =>
              /\ Invoices' = Invoices
              /\ Members'[FirstNamed(req[w].email)].subscription_status
                     = "active"
              /\ Members'[FirstNamed(req[w].email)].provider
                     = req[w].provider
              /\ Ends(w, "subscribe", OK)
              /\ resp'.body.status = "active"
              /\ resp'.body.checkout_url # None
         /\ Leaves(w, "list_members_get") =>
              /\ Ends(w, "list_members", OK)
              /\ db' = db
              /\ Len(resp'.body) = Len(Members)
              /\ \A i \in 1..Len(Members) :
                   resp'.body[i] = [Members[i] EXCEPT !._id = ToString(@)]]_vars

\* An admin listing shows a registered member as active with paypal.
C5_Witness ==
    /\ resp.op = "list_members"
    /\ resp.code = OK
    /\ \E i \in 1..Len(resp.body) :
         /\ resp.body[i].role = "member"
         /\ resp.body[i].subscription_status = "active"
         /\ resp.body[i].provider = "paypal"

\* C6: post_message goes on to insert exactly one Message iff the author
\* resolves to a Member whose subscription_status is active, past_due or
\* pending when the handler reads it; an existing author with another status
\* gets 403 and nothing is inserted; every stored Message's member_email is
\* the email of an existing Member.
MayPostStatuses == {"active", "past_due", "pending"}

C6_Step ==
    \A w \in Workers :
      /\ Accepts(w) => \A payload \in MessageCreate :
           post_message(w, payload) =>
             IF Named(payload.member_email) = {}
             THEN Refused("post_message", NotFound)
             ELSE IF Resolved(payload.member_email).subscription_status
                       \in MayPostStatuses
             THEN Proceeds(w, "post_insert", payload)
             ELSE Refused("post_message", Forbidden)
      /\ Leaves(w, "post_insert") =>
           /\ Len(Messages') = Len(Messages) + 1
           /\ SubSeq(Messages', 1, Len(Messages)) = Messages
           /\ Messages'[Len(Messages')].member_email = req[w].member_email
           /\ Messages'[Len(Messages')].content = req[w].content
           /\ Messages'[Len(Messages')].channel = req[w].channel
           /\ \A c \in Collections \ {"message"} : db'[c] = db[c]
           /\ Ends(w, "post_message", OK)

C6_AuthorsExist ==
    \A i \in 1..Len(Messages) : Named(Messages[i].member_email) # {}

C6_Post == [][C6_Step]_vars /\ []C6_AuthorsExist

\* A member whose subscription is past due posted a message.
C6_Witness ==
    /\ resp.op = "post_message"
    /\ resp.code = OK
    /\ \E i \in 1..Len(Messages) :
         /\ "created_at" \in DOMAIN Messages[i]
         /\ Resolved(Messages[i].member_email).subscription_status
                = "past_due"

\* C7: list_messages(channel, limit) returns the min(limit, count) most
\* recent messages of the channel and only those, newest first, a message
\* without a creation time after every message that has one.
CreatedAt(m) == IF "created_at" \in DOMAIN m THEN m.created_at ELSE 0

InChannel(channel) ==
    {i \in 1..Len(Messages) : Messages[i].channel = channel}

C7_MostRecent ==
    dbPresent =>
      \A channel \in Channels, limit \in Limits :
        LET result == ListMessages(channel, limit)
            count == Cardinality(InChannel(channel))
        IN /\ Len(result) = (IF limit < count THEN limit ELSE count)
           /\ \A k \in 1..Len(result) : result[k].channel = channel
           /\ \A k \in 1..Len(result) - 1 :
                CreatedAt(result[k]) >= CreatedAt(result[k + 1])
           /\ \A i \in InChannel(channel) :
                (\A k \in 1..Len(result) :
                     result[k]._id # ToString(Messages[i]._id))
                  => \A k \in 1..Len(result) :
                       CreatedAt(Messages[i]) <= CreatedAt(result[k])

\* C8: without a store handle every store-backed operation answers 5xx.
StoreBacked ==
    {"admin_check", "register_member", "list_members", "update_member",
     "subscribe", "get_videos", "add_video", "get_resources", "add_resource",
     "list_messages", "post_message"}

C8_Unavailable ==
    (~dbPresent /\ resp.op \in StoreBacked) => resp.code >= ServerError

\* C9: update_member past the admin gate: 404 and no change for a target
\* email without Member; 400 and no change when neither role nor
\* subscription_status is given; otherwise exactly the given ones of the two
\* fields change on the Member the email resolves to, and nothing else in the
\* store changes.  Given(x) says when an argument counts as given.
C9_Step(w, Given(_)) ==
    /\ Leaves(w, "update_ensure") =>
         /\ db' = db
         /\ IF Named(req[w].email) = {}
            THEN Ends(w, "update_member", NotFound)
            ELSE IF ~Given(req[w].role) /\ ~Given(req[w].subscription_status)
            THEN Ends(w, "update_member", BadRequest)
            ELSE pc'[w] = "update_write" /\ req'[w] = req[w]
    /\ Leaves(w, "update_write") =>
         /\ Ends(w, "update_member", OK)
         /\ db' = [db EXCEPT !["member"][FirstNamed(req[w].email)] =
                     [@ EXCEPT
                        !.role = IF Given(req[w].role)
                                 THEN req[w].role ELSE @,
                        !.subscription_status =
                            IF Given(req[w].subscription_status)
                            THEN req[w].subscription_status ELSE @]]

\* As claimed: an argument is supplied when the request carries it.
Supplied(x) == x # None

NonEmpty(x) == x # None /\ x # ""

NoAdmin == \A i \in 1..Len(Members) : Members[i].role # "admin"

C10_RoleWrites ==
    /\ \A w \in Workers :
         (pc[w] = "idle" /\ pc'[w] = "update_ensure")
             => ~NotAnAdmin(req'[w].x_admin_email)
    /\ \/ \E w \in Workers : Leaves(w, "update_write")
       \/ /\ Len(Members') >= Len(Members)
          /\ \A i \in 1..Len(Members') :
               Members'[i].role =
                   (IF i <= Len(Members) THEN Members[i].role ELSE "member")

C10_NoEscalation == [][C10_RoleWrites]_vars /\ (NoAdmin => []NoAdmin)

\* Members registered into an empty store, an update refused, no admin.
C10_Witness ==
    /\ NoAdmin
    /\ Members # <<>>
    /\ resp.op = "update_member"
    /\ resp.code = Forbidden

====
